---- MODULE Spec2Model ----
(***************************************************************************)
(* Model of agent/consul/state/catalog_events.go: the translation of a     *)
(* committed memdb changeset over the nodes, services and checks tables    *)
(* into ServiceHealth / ServiceHealthConnect events, and the snapshot      *)
(* producers of the same two topics.                                       *)
(***************************************************************************)
EXTENDS Integers, Sequences, FiniteSets, TLC

(***************************************************************************)
(* Bounds of the model.                                                    *)
(***************************************************************************)
MaxServices == 2    \* service rows in the store at any time
MaxChecks == 2      \* check rows in the store at any time
MaxInitRows == 3    \* rows (of all three tables) in the catalog a behaviour starts from
MaxIndex == 1       \* transactions committed in one behaviour

\* node names, service ids and check ids, in the order the store's indexes
\* iterate them
NodeNameOrder == <<"n1", "n2">>
ServiceIDOrder == <<"s1", "s2">>
CheckIDOrder == <<"c1", "c2">>
ServiceNames == {"A", "B"}
Addresses == {"a1"}
Statuses == {"passing", "critical"}

\* structs.ServiceKindTypical and structs.ServiceKindConnectProxy
ServiceKindTypical == ""
ServiceKindConnectProxy == "connect-proxy"

\* agentpb.Topic_* and agentpb.CatalogOp_*
Topic_ServiceHealth == "ServiceHealth"
Topic_ServiceHealthConnect == "ServiceHealthConnect"
Topics == {Topic_ServiceHealth, Topic_ServiceHealthConnect}
CatalogOp_Register == "Register"
CatalogOp_Deregister == "Deregister"

ErrNone == "nil"
ErrMissingNode == "ErrMissingNode"
ErrMissingService == "ErrMissingService"
\* the error FromStructs returns when a row cannot be converted
ErrEncoding == "ErrEncoding"

(***************************************************************************)
(* Rows.  A nil row pointer is the row with empty fields.                  *)
(***************************************************************************)
NoNode == [Node |-> "", Address |-> ""]
NoService == [Node |-> "", ServiceID |-> "", ServiceName |-> "",
              ServiceKind |-> "", Native |-> FALSE, Dest |-> ""]
NoCheck == [Node |-> "", CheckID |-> "", ServiceID |-> "", Status |-> ""]

\* The connect attributes a service registration may carry: a typical
\* service, a connect-native one, or a connect-proxy for a destination.
ConnectShapes ==
    {[ServiceKind |-> ServiceKindTypical, Native |-> FALSE, Dest |-> ""],
     [ServiceKind |-> ServiceKindTypical, Native |-> TRUE, Dest |-> ""]}
    \cup {[ServiceKind |-> ServiceKindConnectProxy, Native |-> FALSE, Dest |-> d] :
            d \in ServiceNames}

VARIABLES
    nodes,      \* nodes table: node name -> row
    services,   \* services table: <<node, service id>> -> row
    checks,     \* checks table: <<node, check id>> -> row
    index,      \* index of the last committed transaction
    changes,    \* changeset of the last committed transaction
    events,     \* events returned for the last committed transaction
    err,        \* error returned for the last committed transaction
    fault,      \* the instances whose join cannot be converted to wire form
    snap        \* the last snapshot call: its request, sink and results

vars == <<nodes, services, checks, index, changes, events, err, fault, snap>>

SeqToSet(s) == {s[i] : i \in 1..Len(s)}
NodeNames == SeqToSet(NodeNameOrder)
ServiceIDs == SeqToSet(ServiceIDOrder)
CheckIDs == SeqToSet(CheckIDOrder)

RECURSIVE Perms(_)
\* every ordering of a finite set, as sequences
Perms(S) ==
    IF S = {} THEN {<<>>}
    ELSE UNION {{<<x>> \o p : p \in Perms(S \ {x})} : x \in S}

(***************************************************************************)
(* memdb changes.  A nil *memdb.Change is NilChange.                       *)
(***************************************************************************)
NilChange == [Table |-> "", Before |-> NoNode, After |-> NoNode]

IsNilRow(r) == r.Node = ""

\* memdb.Change.Created / Updated / Deleted
Created(ch) == IsNilRow(ch.Before) /\ ~IsNilRow(ch.After)
Updated(ch) == ~IsNilRow(ch.Before) /\ ~IsNilRow(ch.After)
Deleted(ch) == ~IsNilRow(ch.Before) /\ IsNilRow(ch.After)

\* the result of a step that returned no event and no error
NoEvents == [events |-> <<>>, err |-> ErrNone]

\* `es, err := ...; if err != nil { return nil, err }; events = append(events,
\* es...)`: the events so far with those of the next step, or its error
appendOrFail(acc, r) ==
    IF acc.err # ErrNone THEN [events |-> <<>>, err |-> acc.err]
    ELSE IF r.err # ErrNone THEN [events |-> <<>>, err |-> r.err]
    ELSE [events |-> acc.events \o r.events, err |-> ErrNone]

(***************************************************************************)
(* Store reads on a transaction tx = [nodes, services, checks, Index].     *)
(***************************************************************************)
\* tx.First("nodes", "id", node)
txFirstNode(tx, node) == tx.nodes[node]

\* catalogServiceListByNode: the instances of a node, in index order
catalogServiceListByNode(tx, node) ==
    LET present(id) == ~IsNilRow(tx.services[<<node, id>>])
        ids == SelectSeq(ServiceIDOrder, present)
    IN [i \in 1..Len(ids) |-> tx.services[<<node, ids[i]>>]]

\* catalogListChecksByNode: every check of a node, in index order
catalogListChecksByNode(tx, node) ==
    LET present(id) == ~IsNilRow(tx.checks[<<node, id>>])
        ids == SelectSeq(CheckIDOrder, present)
    IN [i \in 1..Len(ids) |-> tx.checks[<<node, ids[i]>>]]

\* getCompoundWithTxn(tx, "services", "id", entMeta, node, serviceID)
getCompoundService(tx, node, serviceID) == tx.services[<<node, serviceID>>]

(***************************************************************************)
(* Events.                                                                 *)
(***************************************************************************)
\* structs.ServiceNode.ToNodeService
ToNodeService(sn) ==
    [ID |-> sn.ServiceID, Service |-> sn.ServiceName, Kind |-> sn.ServiceKind,
     Native |-> sn.Native, Dest |-> sn.Dest]

\* agentpb.CheckServiceNode.FromStructs: the wire form of a join
FromStructs(csn) ==
    [Node |-> [Node |-> csn.Node.Node, Address |-> csn.Node.Address],
     Service |-> csn.Service,
     Checks |-> [i \in 1..Len(csn.Checks) |->
                   [CheckID |-> csn.Checks[i].CheckID,
                    ServiceID |-> csn.Checks[i].ServiceID,
                    Status |-> csn.Checks[i].Status,
                    Node |-> csn.Checks[i].Node]]]

\* the error of agentpb.CheckServiceNode.FromStructs for a join
FromStructsErr(csn) ==
    IF <<csn.Node.Node, csn.Service.ID>> \in fault THEN ErrEncoding ELSE ErrNone

\* getNodeAndChecks that files every service-scoped check of the node under
\* every service id that has one
getNodeAndChecks_SharedChecks(tx, node) ==
    LET nodeRaw == txFirstNode(tx, node)
        iter == catalogListChecksByNode(tx, node)
        isNodeCheck(c) == c.ServiceID = ""
        isSvcCheck(c) == c.ServiceID # ""
        svcIDs == {iter[i].ServiceID : i \in {j \in 1..Len(iter) : iter[j].ServiceID # ""}}
    IN IF IsNilRow(nodeRaw)
       THEN [err |-> ErrMissingNode, n |-> NoNode, nodeChecks |-> <<>>,
             svcChecks |-> <<>>]
       ELSE [err |-> ErrNone, n |-> nodeRaw,
             nodeChecks |-> SelectSeq(iter, isNodeCheck),
             svcChecks |-> [id \in svcIDs |-> SelectSeq(iter, isSvcCheck)]]

\* getNodeAndChecks: the node row, its node-scoped checks and its
\* service-scoped checks keyed by service id
getNodeAndChecks(tx, node) ==
    LET nodeRaw == txFirstNode(tx, node)
        iter == catalogListChecksByNode(tx, node)
        isNodeCheck(c) == c.ServiceID = ""
        svcIDs == {iter[i].ServiceID : i \in {j \in 1..Len(iter) : iter[j].ServiceID # ""}}
    IN IF IsNilRow(nodeRaw)
       THEN [err |-> ErrMissingNode, n |-> NoNode, nodeChecks |-> <<>>,
             svcChecks |-> <<>>]
       ELSE [err |-> ErrNone, n |-> nodeRaw,
             nodeChecks |-> SelectSeq(iter, isNodeCheck),
             svcChecks |-> [id \in svcIDs |->
                              LET ofID(c) == c.ServiceID = id
                              IN SelectSeq(iter, ofID)]]

\* serviceHealthEventsForServiceNodeInternal
serviceHealthEventsForServiceNodeInternal(tx, node, sn, nodeChecks, svcChecks) ==
    LET merged == nodeChecks \o
                  (IF sn.ServiceID \in DOMAIN svcChecks
                   THEN svcChecks[sn.ServiceID] ELSE <<>>)
        csn == [Node |-> node, Service |-> ToNodeService(sn), Checks |-> merged]
        e == [Topic |-> Topic_ServiceHealth,
              Key |-> sn.ServiceName,
              Index |-> tx.Index,
              Op |-> CatalogOp_Register,
              CheckServiceNode |-> FromStructs(csn)]
    IN IF FromStructsErr(csn) # ErrNone
       THEN [events |-> <<>>, err |-> FromStructsErr(csn)]
       ELSE [events |-> <<e>>, err |-> ErrNone]

RECURSIVE appendAll(_, _)
\* the events of the steps rs appended in order, or the error of the first
\* step that failed
appendAll(acc, rs) ==
    IF rs = <<>> THEN acc ELSE appendAll(appendOrFail(acc, Head(rs)), Tail(rs))

\* serviceHealthEventsForNode: one event per instance of the node
serviceHealthEventsForNode(tx, node) ==
    LET forServices(svcIter, nc) ==
            IF nc.err # ErrNone THEN [events |-> <<>>, err |-> nc.err]
            ELSE appendAll(NoEvents,
                     [i \in 1..Len(svcIter) |->
                        serviceHealthEventsForServiceNodeInternal(
                            tx, nc.n, svcIter[i], nc.nodeChecks, nc.svcChecks)])
    IN forServices(catalogServiceListByNode(tx, node), getNodeAndChecks(tx, node))

\* serviceHealthEventsForServiceInstance that returns nothing for an
\* instance without a service row
serviceHealthEventsForServiceInstance_SkipMissing(tx, node, serviceID) ==
    LET nc == getNodeAndChecks(tx, node)
        sn == getCompoundService(tx, node, serviceID)
    IN IF nc.err # ErrNone THEN [events |-> <<>>, err |-> nc.err]
       ELSE IF IsNilRow(sn) THEN NoEvents
       ELSE serviceHealthEventsForServiceNodeInternal(
                tx, nc.n, sn, nc.nodeChecks, nc.svcChecks)

\* serviceHealthEventsForServiceInstance
serviceHealthEventsForServiceInstance(tx, node, serviceID) ==
    LET nc == getNodeAndChecks(tx, node)
        sn == getCompoundService(tx, node, serviceID)
    IN IF nc.err # ErrNone THEN [events |-> <<>>, err |-> nc.err]
       ELSE IF IsNilRow(sn) THEN [events |-> <<>>, err |-> ErrMissingService]
       ELSE serviceHealthEventsForServiceNodeInternal(
                tx, nc.n, sn, nc.nodeChecks, nc.svcChecks)

\* serviceHealthDeregEventsForServiceInstance
serviceHealthDeregEventsForServiceInstance(tx, sn) ==
    LET csn == [Node |-> [Node |-> sn.Node, Address |-> ""],
                Service |-> ToNodeService(sn), Checks |-> <<>>]
        e == [Topic |-> Topic_ServiceHealth,
              Key |-> sn.ServiceName,
              Index |-> tx.Index,
              Op |-> CatalogOp_Deregister,
              CheckServiceNode |-> FromStructs(csn)]
    IN IF FromStructsErr(csn) # ErrNone
       THEN [events |-> <<>>, err |-> FromStructsErr(csn)]
       ELSE [events |-> <<e>>, err |-> ErrNone]

\* a nil Service of a CheckServiceNode
NoNodeService == ToNodeService(NoService)

\* the payload instance is connect-enabled: a proxy or a connect-native app
ConnectEnabled(svc) == svc.Kind = ServiceKindConnectProxy \/ svc.Native

\* serviceHealthToConnectEvents that converts the events of every topic
serviceHealthToConnectEvents_AnyTopic(es) ==
    LET keep(e) == /\ e.CheckServiceNode.Service # NoNodeService
                   /\ ConnectEnabled(e.CheckServiceNode.Service)
        kept == SelectSeq(es, keep)
    IN [i \in 1..Len(kept) |->
          [kept[i] EXCEPT
             !.Topic = Topic_ServiceHealthConnect,
             !.Key = IF kept[i].CheckServiceNode.Service.Kind = ServiceKindConnectProxy
                     THEN kept[i].CheckServiceNode.Service.Dest
                     ELSE @]]

\* serviceHealthToConnectEvents that leaves the key of a proxy's event alone
serviceHealthToConnectEvents_SameKey(es) ==
    LET keep(e) == /\ e.Topic = Topic_ServiceHealth
                   /\ e.CheckServiceNode.Service # NoNodeService
                   /\ ConnectEnabled(e.CheckServiceNode.Service)
        kept == SelectSeq(es, keep)
    IN [i \in 1..Len(kept) |->
          [kept[i] EXCEPT !.Topic = Topic_ServiceHealthConnect]]

\* serviceHealthToConnectEvents that converts the events of every instance
serviceHealthToConnectEvents_NoFilter(es) ==
    LET keep(e) == e.Topic = Topic_ServiceHealth
        kept == SelectSeq(es, keep)
    IN [i \in 1..Len(kept) |->
          [kept[i] EXCEPT
             !.Topic = Topic_ServiceHealthConnect,
             !.Key = IF kept[i].CheckServiceNode.Service.Kind = ServiceKindConnectProxy
                     THEN kept[i].CheckServiceNode.Service.Dest
                     ELSE @]]

\* serviceHealthToConnectEvents
serviceHealthToConnectEvents(es) ==
    LET keep(e) == /\ e.Topic = Topic_ServiceHealth
                   /\ e.CheckServiceNode.Service # NoNodeService
                   /\ ConnectEnabled(e.CheckServiceNode.Service)
        kept == SelectSeq(es, keep)
    IN [i \in 1..Len(kept) |->
          [kept[i] EXCEPT
             !.Topic = Topic_ServiceHealthConnect,
             !.Key = IF kept[i].CheckServiceNode.Service.Kind = ServiceKindConnectProxy
                     THEN kept[i].CheckServiceNode.Service.Dest
                     ELSE @]]

(***************************************************************************)
(* Snapshots.                                                              *)
(***************************************************************************)
\* checkServiceNodesTxn: the joins of the instances registered under the
\* service name key or, for connect, of the connect-enabled instances that
\* serve key (a proxy by its destination, a native instance by its name).
checkServiceNodesTxn(tx, key, connect) ==
    LET slots == [i \in 1..(Len(NodeNameOrder) * Len(ServiceIDOrder)) |->
                    <<NodeNameOrder[((i - 1) \div Len(ServiceIDOrder)) + 1],
                      ServiceIDOrder[((i - 1) % Len(ServiceIDOrder)) + 1]>>]
        match(k) ==
            LET sn == tx.services[k] IN
            /\ ~IsNilRow(sn)
            /\ IF connect
               THEN \/ sn.ServiceKind = ServiceKindConnectProxy /\ sn.Dest = key
                    \/ sn.ServiceKind # ServiceKindConnectProxy /\ sn.Native
                       /\ sn.ServiceName = key
               ELSE sn.ServiceName = key
        found == SelectSeq(slots, match)
        join(k) ==
            LET all == catalogListChecksByNode(tx, k[1])
                nodeScoped(c) == c.ServiceID = ""
                ofInstance(c) == c.ServiceID = k[2]
            IN [Node |-> tx.nodes[k[1]],
                Service |-> ToNodeService(tx.services[k]),
                Checks |-> SelectSeq(all, nodeScoped) \o SelectSeq(all, ofInstance)]
    IN [i \in 1..Len(found) |-> join(found[i])]

\* A *stream.EventBuffer: the batches appended to it, in order.  A nil
\* pointer is NilBuffer.
NilBuffer == [Nil |-> TRUE, Items |-> <<>>]
EmptyBuffer == [Nil |-> FALSE, Items |-> <<>>]

\* stream.EventBuffer.Append
bufAppend(buf, batch) == [buf EXCEPT !.Items = Append(@, batch)]

RECURSIVE checkServiceNodesToServiceHealthLoop(_, _, _, _, _)
\* the loop of checkServiceNodesToServiceHealth over the joins still to
\* convert, with the buffer and the slice built so far
checkServiceNodesToServiceHealthLoop(idx, csns, buf, connect, acc) ==
    IF csns = <<>> THEN [buf |-> buf, events |-> acc, err |-> ErrNone]
    ELSE LET n == Head(csns)
             event ==
                 [Topic |-> IF connect THEN Topic_ServiceHealthConnect
                            ELSE Topic_ServiceHealth,
                  Key |-> IF n.Service # NoNodeService THEN n.Service.Service ELSE "",
                  Index |-> idx,
                  Op |-> CatalogOp_Register,
                  CheckServiceNode |-> FromStructs(n)]
         IN IF FromStructsErr(n) # ErrNone
            THEN [buf |-> buf, events |-> <<>>, err |-> FromStructsErr(n)]
            ELSE IF ~buf.Nil
            THEN checkServiceNodesToServiceHealthLoop(
                     idx, Tail(csns), bufAppend(buf, <<event>>), connect, acc)
            ELSE checkServiceNodesToServiceHealthLoop(
                     idx, Tail(csns), buf, connect, Append(acc, event))

\* checkServiceNodesToServiceHealth: the buffer after the appends, the slice
\* returned and the error returned
checkServiceNodesToServiceHealth(idx, csns, buf, connect) ==
    checkServiceNodesToServiceHealthLoop(idx, csns, buf, connect, <<>>)

\* ServiceHealthSnapshot: the buffer after the call, the index and the error
\* returned; what checkServiceNodesToServiceHealth returns is not looked at
ServiceHealthSnapshot(tx, key, buf) ==
    [buf |-> checkServiceNodesToServiceHealth(
                 tx.Index, checkServiceNodesTxn(tx, key, FALSE), buf, FALSE).buf,
     idx |-> tx.Index,
     err |-> ErrNone]

\* ServiceHealthConnectSnapshot
ServiceHealthConnectSnapshot(tx, key, buf) ==
    [buf |-> checkServiceNodesToServiceHealth(
                 tx.Index, checkServiceNodesTxn(tx, key, TRUE), buf, TRUE).buf,
     idx |-> tx.Index,
     err |-> ErrNone]

(***************************************************************************)
(* ServiceHealthEventsFromChanges.                                         *)
(***************************************************************************)
\* markNode that keeps the first mark of a node, nil or not
markNode_KeepFirst(nodeChanges, node, nodeChange) ==
    IF node \in DOMAIN nodeChanges
    THEN nodeChanges
    ELSE [n \in DOMAIN nodeChanges \cup {node} |->
            IF n = node THEN nodeChange ELSE nodeChanges[n]]

\* markNode: nodeChanges with node marked; a stored non-nil change is kept
markNode(nodeChanges, node, nodeChange) ==
    IF node \in DOMAIN nodeChanges /\ nodeChanges[node] # NilChange
    THEN nodeChanges
    ELSE [n \in DOMAIN nodeChanges \cup {node} |->
            IF n = node THEN nodeChange ELSE nodeChanges[n]]

\* markService that stores the change it is given whatever is stored
markService_Overwrite(serviceChanges, node, service, svcChange) ==
    LET k == <<node, service>> IN
    [t \in DOMAIN serviceChanges \cup {k} |->
        IF t = k THEN svcChange ELSE serviceChanges[t]]

\* markService: serviceChanges with the tuple <<node, service>> marked
markService(serviceChanges, node, service, svcChange) ==
    LET k == <<node, service>> IN
    IF k \in DOMAIN serviceChanges /\ serviceChanges[k] # NilChange
    THEN serviceChanges
    ELSE [t \in DOMAIN serviceChanges \cup {k} |->
            IF t = k THEN svcChange ELSE serviceChanges[t]]

\* markChange that marks only the instance an updated check is linked to
\* after the update
markChange_NewTargetOnly(m, change) ==
    IF change.Table = "nodes" THEN
        LET n == IF IsNilRow(change.After) THEN change.Before ELSE change.After
        IN [m EXCEPT !.nodeChanges = markNode(@, n.Node, change)]
    ELSE IF change.Table = "services" THEN
        LET sn == IF IsNilRow(change.After) THEN change.Before ELSE change.After
        IN [m EXCEPT !.serviceChanges = markService(@, sn.Node, sn.ServiceID, change)]
    ELSE IF change.Table = "checks" THEN
        LET before == change.Before
            after == change.After
        IN IF Updated(change) THEN
               IF after.ServiceID = "" \/ before.ServiceID = ""
               THEN [m EXCEPT !.nodeChanges = markNode(@, after.Node, NilChange)]
               ELSE [m EXCEPT !.serviceChanges =
                       markService(@, after.Node, after.ServiceID, NilChange)]
           ELSE IF Deleted(change) THEN
               IF before.ServiceID = ""
               THEN [m EXCEPT !.nodeChanges = markNode(@, before.Node, NilChange)]
               ELSE [m EXCEPT !.serviceChanges =
                       markService(@, before.Node, before.ServiceID, NilChange)]
           ELSE IF Created(change) THEN
               IF after.ServiceID = ""
               THEN [m EXCEPT !.nodeChanges = markNode(@, after.Node, NilChange)]
               ELSE [m EXCEPT !.serviceChanges =
                       markService(@, after.Node, after.ServiceID, NilChange)]
           ELSE m
    ELSE m

\* one iteration of the loop over the changes
markChange(m, change) ==
    IF change.Table = "nodes" THEN
        LET n == IF IsNilRow(change.After) THEN change.Before ELSE change.After
        IN [m EXCEPT !.nodeChanges = markNode(@, n.Node, change)]
    ELSE IF change.Table = "services" THEN
        LET sn == IF IsNilRow(change.After) THEN change.Before ELSE change.After
        IN [m EXCEPT !.serviceChanges = markService(@, sn.Node, sn.ServiceID, change)]
    ELSE IF change.Table = "checks" THEN
        LET before == change.Before
            after == change.After
        IN IF Updated(change) THEN
               IF after.ServiceID = "" \/ before.ServiceID = ""
               THEN [m EXCEPT !.nodeChanges = markNode(@, after.Node, NilChange)]
               ELSE LET m1 == [m EXCEPT !.serviceChanges =
                                 markService(@, after.Node, after.ServiceID, NilChange)]
                    IN IF before.ServiceID # after.ServiceID
                       THEN [m1 EXCEPT !.serviceChanges =
                               markService(@, before.Node, before.ServiceID, NilChange)]
                       ELSE m1
           ELSE IF Deleted(change) THEN
               IF before.ServiceID = ""
               THEN [m EXCEPT !.nodeChanges = markNode(@, before.Node, NilChange)]
               ELSE [m EXCEPT !.serviceChanges =
                       markService(@, before.Node, before.ServiceID, NilChange)]
           ELSE IF Created(change) THEN
               IF after.ServiceID = ""
               THEN [m EXCEPT !.nodeChanges = markNode(@, after.Node, NilChange)]
               ELSE [m EXCEPT !.serviceChanges =
                       markService(@, after.Node, after.ServiceID, NilChange)]
           ELSE m
    ELSE m

RECURSIVE markChanges(_, _)
\* the loop over the changes: the two maps after all of them are marked
markChanges(m, chs) ==
    IF chs = <<>> THEN m ELSE markChanges(markChange(m, Head(chs)), Tail(chs))

Classify(chs) == markChanges([nodeChanges |-> <<>>, serviceChanges |-> <<>>], chs)

RECURSIVE nodePass_SkipNil(_, _, _, _)
\* the loop over nodeChanges that rebuilds only the nodes whose own row changed
nodePass_SkipNil(tx, nodeChanges, order, acc) ==
    IF order = <<>> THEN [events |-> acc, err |-> ErrNone]
    ELSE LET node == Head(order)
             change == nodeChanges[node]
         IN IF change = NilChange \/ Deleted(change)
            THEN nodePass_SkipNil(tx, nodeChanges, Tail(order), acc)
            ELSE LET r == serviceHealthEventsForNode(tx, node)
                 IN IF r.err # ErrNone THEN [events |-> <<>>, err |-> r.err]
                    ELSE nodePass_SkipNil(tx, nodeChanges, Tail(order),
                                          acc \o r.events)

RECURSIVE nodePass(_, _, _, _)
\* the loop over nodeChanges, visiting the nodes in the order `order`
nodePass(tx, nodeChanges, order, acc) ==
    IF order = <<>> THEN [events |-> acc, err |-> ErrNone]
    ELSE LET node == Head(order)
             change == nodeChanges[node]
         IN IF change # NilChange /\ Deleted(change)
            THEN nodePass(tx, nodeChanges, Tail(order), acc)
            ELSE LET r == serviceHealthEventsForNode(tx, node)
                 IN IF r.err # ErrNone THEN [events |-> <<>>, err |-> r.err]
                    ELSE nodePass(tx, nodeChanges, Tail(order), acc \o r.events)

\* the iteration that skips an instance of a marked node before it looks at
\* the instance's change
servicePassStep_SkipFirst(tx, nodeChanges, tuple, change) ==
    IF tuple[1] \in DOMAIN nodeChanges
    THEN [events |-> <<>>, err |-> ErrNone]
    ELSE IF change # NilChange /\ Deleted(change)
    THEN serviceHealthDeregEventsForServiceInstance(tx, change.Before)
    ELSE LET before == change.Before
             after == change.After
             upd == change # NilChange /\ Updated(change)
             renamed ==
                 IF upd /\ before.ServiceName # after.ServiceName
                 THEN serviceHealthDeregEventsForServiceInstance(tx, before).events
                 ELSE <<>>
             retargeted ==
                 IF upd /\ before.ServiceKind = ServiceKindConnectProxy
                        /\ before.Dest # after.Dest
                 THEN serviceHealthToConnectEvents(
                          serviceHealthDeregEventsForServiceInstance(tx, before).events)
                 ELSE <<>>
             r == serviceHealthEventsForServiceInstance(tx, tuple[1], tuple[2])
         IN IF r.err # ErrNone THEN [events |-> <<>>, err |-> r.err]
            ELSE [events |-> renamed \o retargeted \o r.events, err |-> ErrNone]

\* the iteration that appends the Deregister of a retargeted proxy itself
\* besides its conversion to the connect topic
servicePassStep_KeepDereg(tx, nodeChanges, tuple, change) ==
    IF change # NilChange /\ Deleted(change)
    THEN serviceHealthDeregEventsForServiceInstance(tx, change.Before)
    ELSE LET before == change.Before
             after == change.After
             upd == change # NilChange /\ Updated(change)
             renamed ==
                 IF upd /\ before.ServiceName # after.ServiceName
                 THEN serviceHealthDeregEventsForServiceInstance(tx, before).events
                 ELSE <<>>
             retargeted ==
                 IF upd /\ before.ServiceKind = ServiceKindConnectProxy
                        /\ before.Dest # after.Dest
                 THEN serviceHealthDeregEventsForServiceInstance(tx, before).events
                      \o serviceHealthToConnectEvents(
                          serviceHealthDeregEventsForServiceInstance(tx, before).events)
                 ELSE <<>>
         IN IF tuple[1] \in DOMAIN nodeChanges
            THEN [events |-> renamed \o retargeted, err |-> ErrNone]
            ELSE LET r == serviceHealthEventsForServiceInstance(tx, tuple[1], tuple[2])
                 IN IF r.err # ErrNone THEN [events |-> <<>>, err |-> r.err]
                    ELSE [events |-> renamed \o retargeted \o r.events,
                          err |-> ErrNone]

\* servicePassStep that registers the instance whether or not its node is
\* marked
servicePassStep_NoSkip(tx, nodeChanges, tuple, change) ==
    IF change # NilChange /\ Deleted(change)
    THEN serviceHealthDeregEventsForServiceInstance(tx, change.Before)
    ELSE LET before == change.Before
             after == change.After
             upd == change # NilChange /\ Updated(change)
             converted(r) == [r EXCEPT !.events = serviceHealthToConnectEvents(@)]
             renamed ==
                 IF upd /\ before.ServiceName # after.ServiceName
                 THEN serviceHealthDeregEventsForServiceInstance(tx, before)
                 ELSE NoEvents
             retargeted ==
                 IF upd /\ before.ServiceKind = ServiceKindConnectProxy
                        /\ before.Dest # after.Dest
                 THEN converted(serviceHealthDeregEventsForServiceInstance(tx, before))
                 ELSE NoEvents
             register == serviceHealthEventsForServiceInstance(tx, tuple[1], tuple[2])
         IN appendOrFail(appendOrFail(renamed, retargeted), register)

\* servicePassStep that registers the instance when its node is marked as
\* deleted
servicePassStep_SkipUnlessDeleted(tx, nodeChanges, tuple, change) ==
    IF change # NilChange /\ Deleted(change)
    THEN serviceHealthDeregEventsForServiceInstance(tx, change.Before)
    ELSE LET before == change.Before
             after == change.After
             upd == change # NilChange /\ Updated(change)
             converted(r) == [r EXCEPT !.events = serviceHealthToConnectEvents(@)]
             renamed ==
                 IF upd /\ before.ServiceName # after.ServiceName
                 THEN serviceHealthDeregEventsForServiceInstance(tx, before)
                 ELSE NoEvents
             retargeted ==
                 IF upd /\ before.ServiceKind = ServiceKindConnectProxy
                        /\ before.Dest # after.Dest
                 THEN converted(serviceHealthDeregEventsForServiceInstance(tx, before))
                 ELSE NoEvents
             register ==
                 IF /\ tuple[1] \in DOMAIN nodeChanges
                    /\ ~(nodeChanges[tuple[1]] # NilChange /\ Deleted(nodeChanges[tuple[1]]))
                 THEN NoEvents
                 ELSE serviceHealthEventsForServiceInstance(tx, tuple[1], tuple[2])
         IN appendOrFail(appendOrFail(renamed, retargeted), register)

\* one iteration of the loop over serviceChanges
servicePassStep(tx, nodeChanges, tuple, change) ==
    IF change # NilChange /\ Deleted(change)
    THEN serviceHealthDeregEventsForServiceInstance(tx, change.Before)
    ELSE LET before == change.Before
             after == change.After
             upd == change # NilChange /\ Updated(change)
             converted(r) == [r EXCEPT !.events = serviceHealthToConnectEvents(@)]
             renamed ==
                 IF upd /\ before.ServiceName # after.ServiceName
                 THEN serviceHealthDeregEventsForServiceInstance(tx, before)
                 ELSE NoEvents
             retargeted ==
                 IF upd /\ before.ServiceKind = ServiceKindConnectProxy
                        /\ before.Dest # after.Dest
                 THEN converted(serviceHealthDeregEventsForServiceInstance(tx, before))
                 ELSE NoEvents
             register ==
                 IF tuple[1] \in DOMAIN nodeChanges
                 THEN NoEvents
                 ELSE serviceHealthEventsForServiceInstance(tx, tuple[1], tuple[2])
         IN appendOrFail(appendOrFail(renamed, retargeted), register)

RECURSIVE servicePass(_, _, _, _, _)
\* the loop over serviceChanges, visiting the tuples in the order `order`
servicePass(tx, nodeChanges, serviceChanges, order, acc) ==
    IF order = <<>> THEN [events |-> acc, err |-> ErrNone]
    ELSE LET r == servicePassStep(tx, nodeChanges, Head(order),
                                  serviceChanges[Head(order)])
         IN IF r.err # ErrNone THEN [events |-> <<>>, err |-> r.err]
            ELSE servicePass(tx, nodeChanges, serviceChanges, Tail(order),
                             acc \o r.events)

\* ServiceHealthEventsFromChanges that puts the converted events before the
\* events of the two passes
ServiceHealthEventsFromChanges_OverlayFirst(tx, chs, nodeOrder, svcOrder) ==
    LET afterServices(sp) ==
            IF sp.err # ErrNone THEN [events |-> <<>>, err |-> sp.err]
            ELSE [events |-> serviceHealthToConnectEvents(sp.events) \o sp.events,
                  err |-> ErrNone]
        afterNodes(m, np) ==
            IF np.err # ErrNone THEN [events |-> <<>>, err |-> np.err]
            ELSE afterServices(servicePass(tx, m.nodeChanges, m.serviceChanges,
                                           svcOrder, np.events))
        afterChanges(m) == afterNodes(m, nodePass(tx, m.nodeChanges, nodeOrder, <<>>))
    IN afterChanges(Classify(chs))

\* ServiceHealthEventsFromChanges that returns the events of the node pass
\* with the error of the instance pass
ServiceHealthEventsFromChanges_Partial(tx, chs, nodeOrder, svcOrder) ==
    LET afterServices(np, sp) ==
            IF sp.err # ErrNone THEN [events |-> np.events, err |-> sp.err]
            ELSE [events |-> sp.events \o serviceHealthToConnectEvents(sp.events),
                  err |-> ErrNone]
        afterNodes(m, np) ==
            IF np.err # ErrNone THEN [events |-> <<>>, err |-> np.err]
            ELSE afterServices(np, servicePass(tx, m.nodeChanges, m.serviceChanges,
                                               svcOrder, np.events))
        afterChanges(m) == afterNodes(m, nodePass(tx, m.nodeChanges, nodeOrder, <<>>))
    IN afterChanges(Classify(chs))

\* ServiceHealthEventsFromChanges that discards the events it converted to
\* the connect topic
ServiceHealthEventsFromChanges_Discard(tx, chs, nodeOrder, svcOrder) ==
    LET m == Classify(chs)
        np == nodePass(tx, m.nodeChanges, nodeOrder, <<>>)
        sp == servicePass(tx, m.nodeChanges, m.serviceChanges, svcOrder, np.events)
        converted(e) == /\ e.Topic = Topic_ServiceHealth
                        /\ ConnectEnabled(e.CheckServiceNode.Service)
        kept(e) == ~converted(e)
        rest == SelectSeq(sp.events, kept)
    IN IF np.err # ErrNone THEN [events |-> <<>>, err |-> np.err]
       ELSE IF sp.err # ErrNone THEN [events |-> <<>>, err |-> sp.err]
       ELSE [events |-> rest \o serviceHealthToConnectEvents(sp.events),
             err |-> ErrNone]

\* ServiceHealthEventsFromChanges, with the iteration orders of the two maps
ServiceHealthEventsFromChanges(tx, chs, nodeOrder, svcOrder) ==
    LET \* the return after the loop over serviceChanges
        afterServices(sp) ==
            IF sp.err # ErrNone THEN [events |-> <<>>, err |-> sp.err]
            ELSE [events |-> sp.events \o serviceHealthToConnectEvents(sp.events),
                  err |-> ErrNone]
        \* the loop over serviceChanges, after the loop over nodeChanges
        afterNodes(m, np) ==
            IF np.err # ErrNone THEN [events |-> <<>>, err |-> np.err]
            ELSE afterServices(servicePass(tx, m.nodeChanges, m.serviceChanges,
                                           svcOrder, np.events))
        \* the loop over nodeChanges, after the loop over the changes
        afterChanges(m) == afterNodes(m, nodePass(tx, m.nodeChanges, nodeOrder, <<>>))
    IN afterChanges(Classify(chs))

(***************************************************************************)
(* The store's write transactions.  Every transaction commits a changeset  *)
(* and the events of the changeset are computed on the writer's view.      *)
(* A row holds the fields the events depend on; a write that leaves them    *)
(* as they were stands for a write that changes another field of the row   *)
(* (tags, meta, check output), which memdb records as an update too.       *)
(***************************************************************************)
ServiceRows(svcs) == {k \in DOMAIN svcs : ~IsNilRow(svcs[k])}
CheckRows(chks) == {k \in DOMAIN chks : ~IsNilRow(chks[k])}

\* referential integrity of the catalog: instances live on nodes, checks on
\* nodes and, when service-scoped, on an instance of the node
Consistent(nds, svcs, chks) ==
    /\ \A k \in ServiceRows(svcs) : ~IsNilRow(nds[k[1]])
    /\ \A k \in CheckRows(chks) :
          /\ ~IsNilRow(nds[k[1]])
          /\ chks[k].ServiceID # "" => ~IsNilRow(svcs[<<k[1], chks[k].ServiceID>>])
    /\ Cardinality(ServiceRows(svcs)) <= MaxServices
    /\ Cardinality(CheckRows(chks)) <= MaxChecks

NodeRow(n, a) == [Node |-> n, Address |-> a]
ServiceRow(n, id, name, shape) ==
    [Node |-> n, ServiceID |-> id, ServiceName |-> name,
     ServiceKind |-> shape.ServiceKind, Native |-> shape.Native, Dest |-> shape.Dest]
CheckRow(n, cid, sid, st) ==
    [Node |-> n, CheckID |-> cid, ServiceID |-> sid, Status |-> st]

NodeTables ==
    {f \in [NodeNames -> {NoNode} \cup {NodeRow(n, a) : n \in NodeNames, a \in Addresses}] :
        \A n \in NodeNames : f[n] = NoNode \/ f[n].Node = n}

\* the tables of at most MaxServices instances whose names and connect
\* attributes are drawn from names and shapes
ServiceTablesOf(names, shapes) ==
    LET options ==
            {[Present |-> FALSE, Name |-> "", Shape |-> CHOOSE x \in shapes : TRUE]}
            \cup {[Present |-> TRUE, Name |-> nm, Shape |-> x] :
                    nm \in names, x \in shapes}
    IN {[k \in NodeNames \X ServiceIDs |->
           IF o[k].Present THEN ServiceRow(k[1], k[2], o[k].Name, o[k].Shape)
           ELSE NoService] :
        o \in {p \in [NodeNames \X ServiceIDs -> options] :
                 Cardinality({k \in DOMAIN p : p[k].Present}) <= MaxServices}}

ServiceTables == ServiceTablesOf(ServiceNames, ConnectShapes)

\* instances named A that are typical or a proxy for B
PlainServiceTables ==
    ServiceTablesOf({"A"},
        {x \in ConnectShapes : x.Dest \in {"", "B"} /\ ~x.Native})

CheckOptions ==
    {[Present |-> FALSE, ServiceID |-> "", Status |-> ""]}
    \cup {[Present |-> TRUE, ServiceID |-> sid, Status |-> st] :
            sid \in ServiceIDs \cup {""}, st \in Statuses}

CheckTables ==
    {[k \in NodeNames \X CheckIDs |->
        IF o[k].Present THEN CheckRow(k[1], k[2], o[k].ServiceID, o[k].Status)
        ELSE NoCheck] :
     o \in {p \in [NodeNames \X CheckIDs -> CheckOptions] :
              Cardinality({k \in DOMAIN p : p[k].Present}) <= MaxChecks}}

NodeRows(nds) == {n \in DOMAIN nds : ~IsNilRow(nds[n])}

\* no snapshot was taken
NoSnap == [Taken |-> FALSE, Topic |-> "", Key |-> "", Buf |-> NilBuffer,
           Idx |-> 0, Err |-> ErrNone]

\* any consistent catalog of at most MaxInitRows rows
SmallCatalog ==
    /\ nodes \in NodeTables
    /\ services \in {s \in ServiceTables :
                       /\ \A k \in ServiceRows(s) : ~IsNilRow(nodes[k[1]])
                       /\ Cardinality(NodeRows(nodes)) + Cardinality(ServiceRows(s))
                            <= MaxInitRows}
    /\ checks \in {c \in CheckTables :
                     /\ Consistent(nodes, services, c)
                     /\ Cardinality(NodeRows(nodes)) + Cardinality(ServiceRows(services))
                          + Cardinality(CheckRows(c)) <= MaxInitRows}

\* a consistent catalog of any size within the bounds whose instances are plain
WideCatalog ==
    /\ nodes \in NodeTables
    /\ services \in {x \in PlainServiceTables :
                       \A k \in ServiceRows(x) : ~IsNilRow(nodes[k[1]])}
    /\ checks \in {c \in CheckTables : Consistent(nodes, services, c)}

\* nothing was projected and no snapshot was taken
Idle ==
    /\ changes = <<>>
    /\ events = <<>>
    /\ err = ErrNone
    /\ snap = NoSnap

\* The catalog a behaviour starts from: any consistent catalog of at most
\* MaxInitRows rows, every row of which can be converted.
Init ==
    /\ SmallCatalog
    /\ index = 0
    /\ fault = {}
    /\ Idle

\* A catalog of any size within the bounds whose instances are plain.
InitWide ==
    /\ WideCatalog
    /\ index = 0
    /\ fault = {}
    /\ Idle

\* s.db.Txn(false): a read transaction on the committed tables
CurTx == [nodes |-> nodes, services |-> services, checks |-> checks,
          Index |-> index]

\* a further transaction may commit
CanCommit == index < MaxIndex

\* Commit the tables nds, svcs, chks with the changeset chs at the next index
\* and compute the events of the changeset on the committing view.
Commit(nds, svcs, chks, chs) ==
    /\ Consistent(nds, svcs, chks)
    /\ nodes' = nds
    /\ services' = svcs
    /\ checks' = chks
    /\ index' = index + 1
    /\ changes' = chs
    /\ \E m \in {Classify(chs)} :
         \E nodeOrder \in Perms(DOMAIN m.nodeChanges),
            svcOrder \in Perms(DOMAIN m.serviceChanges) :
           \E r \in {ServiceHealthEventsFromChanges(
                        [nodes |-> nds, services |-> svcs, checks |-> chks,
                         Index |-> index + 1],
                        chs, nodeOrder, svcOrder)} :
             events' = r.events /\ err' = r.err
    /\ UNCHANGED <<fault, snap>>

NodeChange(n, row) == [Table |-> "nodes", Before |-> nodes[n], After |-> row]
ServiceChange(k, row) == [Table |-> "services", Before |-> services[k], After |-> row]
CheckChange(k, row) == [Table |-> "checks", Before |-> checks[k], After |-> row]

\* Register or update a node row.
EnsureNode(n, a) ==
    /\ CanCommit
    /\ Commit([nodes EXCEPT ![n] = NodeRow(n, a)], services, checks,
              <<NodeChange(n, NodeRow(n, a))>>)

\* Register or update a service instance.
EnsureService(n, id, name, shape) ==
    /\ CanCommit
    /\ LET row == ServiceRow(n, id, name, shape)
       IN Commit(nodes, [services EXCEPT ![<<n, id>>] = row], checks,
                 <<ServiceChange(<<n, id>>, row)>>)

\* Register or update a check.
EnsureCheck(n, cid, sid, st) ==
    /\ CanCommit
    /\ LET row == CheckRow(n, cid, sid, st)
       IN Commit(nodes, services, [checks EXCEPT ![<<n, cid>>] = row],
                 <<CheckChange(<<n, cid>>, row)>>)

\* A registration that writes the node row and an instance of the node in
\* one transaction.
RegisterNodeService(n, a, id, name, shape) ==
    /\ CanCommit
    /\ LET nrow == NodeRow(n, a)
           srow == ServiceRow(n, id, name, shape)
       IN \E order \in Perms({NodeChange(n, nrow), ServiceChange(<<n, id>>, srow)}) :
            Commit([nodes EXCEPT ![n] = nrow], [services EXCEPT ![<<n, id>>] = srow],
                   checks, order)

\* A registration that writes the node row and a check of the node.
RegisterNodeCheck(n, a, cid, sid, st) ==
    /\ CanCommit
    /\ LET nrow == NodeRow(n, a)
           crow == CheckRow(n, cid, sid, st)
       IN \E order \in Perms({NodeChange(n, nrow), CheckChange(<<n, cid>>, crow)}) :
            Commit([nodes EXCEPT ![n] = nrow], services,
                   [checks EXCEPT ![<<n, cid>>] = crow], order)

\* A registration that writes an instance and one check, of the instance or
\* of its node.
RegisterServiceCheck(n, id, name, shape, cid, sid, st) ==
    /\ CanCommit
    /\ sid \in {"", id}
    /\ LET srow == ServiceRow(n, id, name, shape)
           crow == CheckRow(n, cid, sid, st)
       IN \E order \in Perms({ServiceChange(<<n, id>>, srow),
                              CheckChange(<<n, cid>>, crow)}) :
            Commit(nodes, [services EXCEPT ![<<n, id>>] = srow],
                   [checks EXCEPT ![<<n, cid>>] = crow], order)

DeleteCheck(n, cid) ==
    /\ CanCommit
    /\ ~IsNilRow(checks[<<n, cid>>])
    /\ Commit(nodes, services, [checks EXCEPT ![<<n, cid>>] = NoCheck],
              <<CheckChange(<<n, cid>>, NoCheck)>>)

\* Deleting an instance deletes its checks in the same transaction.
DeleteService(n, id) ==
    /\ CanCommit
    /\ ~IsNilRow(services[<<n, id>>])
    /\ LET gone == {k \in CheckRows(checks) : k[1] = n /\ checks[k].ServiceID = id}
           dels == {CheckChange(k, NoCheck) : k \in gone}
                   \cup {ServiceChange(<<n, id>>, NoService)}
       IN \E order \in Perms(dels) :
            Commit(nodes, [services EXCEPT ![<<n, id>>] = NoService],
                   [k \in DOMAIN checks |-> IF k \in gone THEN NoCheck ELSE checks[k]],
                   order)

\* Deleting a node deletes its instances and all its checks in the same
\* transaction.
DeleteNode(n) ==
    /\ CanCommit
    /\ ~IsNilRow(nodes[n])
    /\ LET goneS == {k \in ServiceRows(services) : k[1] = n}
           goneC == {k \in CheckRows(checks) : k[1] = n}
           dels == {CheckChange(k, NoCheck) : k \in goneC}
                   \cup {ServiceChange(k, NoService) : k \in goneS}
                   \cup {NodeChange(n, NoNode)}
       IN \E order \in Perms(dels) :
            Commit([nodes EXCEPT ![n] = NoNode],
                   [k \in DOMAIN services |-> IF k \in goneS THEN NoService ELSE services[k]],
                   [k \in DOMAIN checks |-> IF k \in goneC THEN NoCheck ELSE checks[k]],
                   order)

\* One transaction that deletes an instance, with its checks, and writes the
\* row of its node.
DeleteServiceEnsureNode(n, id, a) ==
    /\ CanCommit
    /\ ~IsNilRow(services[<<n, id>>])
    /\ LET gone == {k \in CheckRows(checks) : k[1] = n /\ checks[k].ServiceID = id}
           chs == {CheckChange(k, NoCheck) : k \in gone}
                  \cup {ServiceChange(<<n, id>>, NoService),
                        NodeChange(n, NodeRow(n, a))}
       IN \E order \in Perms(chs) :
            Commit([nodes EXCEPT ![n] = NodeRow(n, a)],
                   [services EXCEPT ![<<n, id>>] = NoService],
                   [k \in DOMAIN checks |-> IF k \in gone THEN NoCheck ELSE checks[k]],
                   order)

Next ==
    \/ \E n \in NodeNames, a \in Addresses : EnsureNode(n, a)
    \/ \E n \in NodeNames, id \in ServiceIDs, name \in ServiceNames,
          shape \in ConnectShapes : EnsureService(n, id, name, shape)
    \/ \E n \in NodeNames, cid \in CheckIDs, sid \in ServiceIDs \cup {""},
          st \in Statuses : EnsureCheck(n, cid, sid, st)
    \/ \E n \in NodeNames, a \in Addresses, id \in ServiceIDs,
          name \in ServiceNames, shape \in ConnectShapes :
          RegisterNodeService(n, a, id, name, shape)
    \/ \E n \in NodeNames, a \in Addresses, cid \in CheckIDs,
          sid \in ServiceIDs \cup {""}, st \in Statuses :
          RegisterNodeCheck(n, a, cid, sid, st)
    \/ \E n \in NodeNames, id \in ServiceIDs, name \in ServiceNames,
          shape \in ConnectShapes, cid \in CheckIDs,
          sid \in ServiceIDs \cup {""}, st \in Statuses :
          RegisterServiceCheck(n, id, name, shape, cid, sid, st)
    \/ \E n \in NodeNames, cid \in CheckIDs : DeleteCheck(n, cid)
    \/ \E n \in NodeNames, id \in ServiceIDs : DeleteService(n, id)
    \/ \E n \in NodeNames : DeleteNode(n)
    \/ \E n \in NodeNames, id \in ServiceIDs, a \in Addresses :
          DeleteServiceEnsureNode(n, id, a)

Spec == Init /\ [][Next]_vars

\* A subscriber asks for the snapshot of topic and key: the snapshot function
\* of the topic runs on a read transaction with a fresh buffer.
Snapshot(topic, key) ==
    /\ ~snap.Taken
    /\ \E r \in {IF topic = Topic_ServiceHealthConnect
                 THEN ServiceHealthConnectSnapshot(CurTx, key, EmptyBuffer)
                 ELSE ServiceHealthSnapshot(CurTx, key, EmptyBuffer)} :
         snap' = [Taken |-> TRUE, Topic |-> topic, Key |-> key, Buf |-> r.buf,
                  Idx |-> r.idx, Err |-> r.err]
    /\ UNCHANGED <<nodes, services, checks, index, changes, events, err, fault>>

\* at most one instance cannot be converted
Faults == {{}} \cup {{k} : k \in NodeNames \X ServiceIDs}

\* A catalog at any index, with at most one instance that cannot be converted.
InitSnap ==
    /\ (SmallCatalog \/ WideCatalog)
    /\ index \in 0..MaxIndex
    /\ fault \in Faults
    /\ Idle

NextSnap == \E topic \in Topics, key \in ServiceNames : Snapshot(topic, key)

\* The snapshots of the catalogs of Init and InitWide.
SpecSnap == InitSnap /\ [][NextSnap]_vars

\* rows of a view handed to a projection
MaxProjRows == 2
\* changes of a changeset handed to a projection
MaxProjChanges == 2

\* The views a projection may be handed: tables of at most MaxProjRows rows
\* on which no consistency is assumed, so that a service or a check may lack
\* its node and a check its service.
ProjView ==
    /\ nodes \in NodeTables
    /\ services \in {x \in PlainServiceTables :
                       Cardinality(NodeRows(nodes)) + Cardinality(ServiceRows(x))
                           <= MaxProjRows}
    /\ checks \in {c \in CheckTables :
                     /\ \A k \in CheckRows(c) : c[k].Status = "passing"
                     /\ Cardinality(NodeRows(nodes)) + Cardinality(ServiceRows(services))
                          + Cardinality(CheckRows(c)) <= MaxProjRows}

\* The changes a changeset handed to a projection is made of: every kind of
\* change of the node n1, of its instance s1 and of its check c1, and an
\* update of the node n2 and of its instance s1.
ProjChanges ==
    LET node(n) == NodeRow(n, "a1")
        typical(n, name) == ServiceRow(n, "s1", name,
                                [ServiceKind |-> ServiceKindTypical, Native |-> FALSE,
                                 Dest |-> ""])
        proxy(dest) == ServiceRow("n1", "s1", "A",
                                [ServiceKind |-> ServiceKindConnectProxy, Native |-> FALSE,
                                 Dest |-> dest])
        check(sid) == CheckRow("n1", "c1", sid, "passing")
    IN {[Table |-> "nodes", Before |-> b, After |-> a] :
           <<b, a>> \in {<<NoNode, node("n1")>>, <<node("n1"), node("n1")>>,
                         <<node("n1"), NoNode>>, <<node("n2"), node("n2")>>}}
       \cup
       {[Table |-> "services", Before |-> b, After |-> a] :
           <<b, a>> \in {<<NoService, typical("n1", "A")>>,
                         <<typical("n1", "A"), typical("n1", "A")>>,
                         <<typical("n1", "A"), typical("n1", "B")>>,
                         <<typical("n1", "A"), NoService>>,
                         <<proxy("B"), proxy("A")>>,
                         <<proxy("B"), NoService>>,
                         <<typical("n2", "A"), typical("n2", "A")>>}}
       \cup
       {[Table |-> "checks", Before |-> b, After |-> a] :
           <<b, a>> \in {<<NoCheck, check("")>>, <<NoCheck, check("s1")>>,
                         <<check(""), NoCheck>>, <<check("s1"), NoCheck>>,
                         <<check(""), check("")>>, <<check("s1"), check("s1")>>,
                         <<check(""), check("s1")>>, <<check("s1"), check("")>>,
                         <<check("s1"), check("s2")>>}}

ProjChangesets == UNION {[1..n -> ProjChanges] : n \in 0..MaxProjChanges}

\* ServiceHealthEventsFromChanges is applied to the view and a changeset.
Project(chs) ==
    /\ CanCommit
    /\ index' = index + 1
    /\ changes' = chs
    /\ \E m \in {Classify(chs)} :
         \E nodeOrder \in Perms(DOMAIN m.nodeChanges),
            svcOrder \in Perms(DOMAIN m.serviceChanges) :
           \E r \in {ServiceHealthEventsFromChanges(
                        [nodes |-> nodes, services |-> services, checks |-> checks,
                         Index |-> index + 1],
                        chs, nodeOrder, svcOrder)} :
             events' = r.events /\ err' = r.err
    /\ UNCHANGED <<nodes, services, checks, fault, snap>>

\* A view and, at most, one instance that cannot be converted.
InitProj ==
    /\ ProjView
    /\ index = 0
    /\ fault \in {{}, {<<"n1", "s1">>}}
    /\ Idle

NextProj == \E chs \in ProjChangesets : Project(chs)

\* ServiceHealthEventsFromChanges on any view and any changeset.
SpecProj == InitProj /\ [][NextProj]_vars

\* the transactions that write no service row
NextWide ==
    \/ \E n \in NodeNames, a \in Addresses : EnsureNode(n, a)
    \/ \E n \in NodeNames, cid \in CheckIDs, sid \in ServiceIDs \cup {""},
          st \in Statuses : EnsureCheck(n, cid, sid, st)
    \/ \E n \in NodeNames, a \in Addresses, cid \in CheckIDs,
          sid \in ServiceIDs \cup {""}, st \in Statuses :
          RegisterNodeCheck(n, a, cid, sid, st)
    \/ \E n \in NodeNames, cid \in CheckIDs : DeleteCheck(n, cid)
    \/ \E n \in NodeNames, id \in ServiceIDs : DeleteService(n, id)
    \/ \E n \in NodeNames : DeleteNode(n)
    \/ \E n \in NodeNames, id \in ServiceIDs, a \in Addresses :
          DeleteServiceEnsureNode(n, id, a)

\* The transactions on nodes and checks, from the catalogs of InitWide.
SpecWide == InitWide /\ [][NextWide]_vars

(***************************************************************************)
(* Properties.                                                             *)
(***************************************************************************)
\* the transaction whose changeset and events the state holds has committed
Committed == index > 0

\* the row a change is about
RowOf(ch) == IF IsNilRow(ch.After) THEN ch.Before ELSE ch.After

ChangeIdx == 1..Len(changes)
EventIdx == 1..Len(events)

\* The tables as they were before the last transaction: a changed row has the
\* Before image of its change, every other row is unchanged.
PreNodes ==
    [n \in NodeNames |->
        LET cs == {i \in ChangeIdx : changes[i].Table = "nodes"
                                      /\ RowOf(changes[i]).Node = n}
        IN IF cs = {} THEN nodes[n] ELSE changes[CHOOSE i \in cs : TRUE].Before]
PreServices ==
    [k \in NodeNames \X ServiceIDs |->
        LET cs == {i \in ChangeIdx : /\ changes[i].Table = "services"
                                      /\ RowOf(changes[i]).Node = k[1]
                                      /\ RowOf(changes[i]).ServiceID = k[2]}
        IN IF cs = {} THEN services[k] ELSE changes[CHOOSE i \in cs : TRUE].Before]
PreChecks ==
    [k \in NodeNames \X CheckIDs |->
        LET cs == {i \in ChangeIdx : /\ changes[i].Table = "checks"
                                      /\ RowOf(changes[i]).Node = k[1]
                                      /\ RowOf(changes[i]).CheckID = k[2]}
        IN IF cs = {} THEN checks[k] ELSE changes[CHOOSE i \in cs : TRUE].Before]

PreTx == [nodes |-> PreNodes, services |-> PreServices, checks |-> PreChecks,
          Index |-> index - 1]

\* the instance a payload is about
InstanceOf(csn) == <<csn.Node.Node, csn.Service.ID>>

\* A subscriber's view: the payloads it holds, one per instance.  Register
\* upserts the payload of its instance, Deregister removes the instance.
ApplyEvent(view, e) ==
    LET others == {p \in view : InstanceOf(p) # InstanceOf(e.CheckServiceNode)}
    IN IF e.Op = CatalogOp_Register THEN others \cup {e.CheckServiceNode} ELSE others

RECURSIVE ApplyEvents(_, _)
ApplyEvents(view, es) ==
    IF es = <<>> THEN view ELSE ApplyEvents(ApplyEvent(view, Head(es)), Tail(es))

RECURSIVE Flatten(_)
\* the events of a sequence of batches, in order
Flatten(batches) ==
    IF batches = <<>> THEN <<>> ELSE Head(batches) \o Flatten(Tail(batches))

\* the view a snapshot of topic and key gives a new subscriber
SnapshotView(tx, topic, key) ==
    ApplyEvents({}, Flatten(IF topic = Topic_ServiceHealthConnect
                            THEN ServiceHealthConnectSnapshot(tx, key, EmptyBuffer).buf.Items
                            ELSE ServiceHealthSnapshot(tx, key, EmptyBuffer).buf.Items))

\* the events of the last transaction a subscriber of topic and key receives
Delivered(topic, key) ==
    LET mine(e) == e.Topic = topic /\ e.Key = key IN SelectSeq(events, mine)

\* C1: a subscriber of any topic and key that took its snapshot just before
\* the last transaction and applied the events of that transaction holds what
\* a fresh snapshot taken after the transaction holds.
C1_Convergence ==
    (Committed /\ err = ErrNone) =>
        \A topic \in Topics, key \in ServiceNames :
            ApplyEvents(SnapshotView(PreTx, topic, key), Delivered(topic, key))
                = SnapshotView(CurTx, topic, key)

\* the events of the last transaction on a topic, in list order
OnTopic(topic) == LET on(e) == e.Topic = topic IN SelectSeq(events, on)

IsRegister(e) == e.Op = CatalogOp_Register
IsDeregister(e) == e.Op = CatalogOp_Deregister
OnHealth(e) == e.Topic = Topic_ServiceHealth
OnConnect(e) == e.Topic = Topic_ServiceHealthConnect

\* the changes of the last transaction that update, delete a service row
ServiceUpdates == {i \in ChangeIdx : changes[i].Table = "services" /\ Updated(changes[i])}
ServiceDeletes == {i \in ChangeIdx : changes[i].Table = "services" /\ Deleted(changes[i])}

\* the key of the connect topic an instance is published under
ConnectKey(svc) == IF svc.Kind = ServiceKindConnectProxy THEN svc.Dest ELSE svc.Service

\* C2: every Register on ServiceHealth of a connect-eligible instance has a
\* copy on ServiceHealthConnect in the same list, with the same index, op and
\* payload, keyed by the proxy destination for a proxy and by the instance's
\* own service name otherwise.
C2_ConnectCopy ==
    \A i \in EventIdx :
        (OnHealth(events[i]) /\ IsRegister(events[i])
           /\ ConnectEnabled(events[i].CheckServiceNode.Service)) =>
        \E j \in EventIdx :
            events[j] = [events[i] EXCEPT
                           !.Topic = Topic_ServiceHealthConnect,
                           !.Key = ConnectKey(events[i].CheckServiceNode.Service)]

\* a proxy registered under a name other than its destination, and a
\* connect-native instance, are registered in the same list
C2_Witness ==
    /\ \E i \in EventIdx :
          /\ OnHealth(events[i]) /\ IsRegister(events[i])
          /\ events[i].CheckServiceNode.Service.Kind = ServiceKindConnectProxy
          /\ events[i].CheckServiceNode.Service.Dest # events[i].Key
    /\ \E i \in EventIdx :
          /\ OnHealth(events[i]) /\ IsRegister(events[i])
          /\ events[i].CheckServiceNode.Service.Native

\* C3: no event on ServiceHealthConnect carries an instance that is not
\* connect-eligible or has no service part.
C3_ConnectOnlyEligible ==
    \A i \in EventIdx :
        OnConnect(events[i]) =>
            /\ events[i].CheckServiceNode.Service # NoNodeService
            /\ ConnectEnabled(events[i].CheckServiceNode.Service)

\* a list with a Deregister on ServiceHealthConnect from the retarget of a
\* proxy that stopped being connect-eligible, whose Register stays off the
\* connect topic
C3_Witness ==
    /\ \E i \in EventIdx : OnConnect(events[i]) /\ IsDeregister(events[i])
    /\ \E i \in EventIdx :
          /\ OnHealth(events[i]) /\ IsRegister(events[i])
          /\ ~ConnectEnabled(events[i].CheckServiceNode.Service)
    /\ \A i \in EventIdx : OnConnect(events[i]) => IsDeregister(events[i])

\* the checks of the committed view that apply to the instance of a payload
ChecksFor(csn) ==
    {checks[k] : k \in {c \in CheckRows(checks) :
                          /\ checks[c].Node = csn.Node.Node
                          /\ checks[c].ServiceID \in {"", csn.Service.ID}}}

\* C4: the check list of every Register payload holds exactly the checks of
\* the committed view on the instance's node that are node-scoped or scoped
\* to the instance, each once.
C4_RegisterChecks ==
    \A i \in EventIdx :
        IsRegister(events[i]) =>
            /\ SeqToSet(events[i].CheckServiceNode.Checks)
                  = ChecksFor(events[i].CheckServiceNode)
            /\ Len(events[i].CheckServiceNode.Checks)
                  = Cardinality(ChecksFor(events[i].CheckServiceNode))

\* one node pass registers two instances of a node that has a check of one
\* of them
C4_Witness ==
    \E i, j \in EventIdx :
        /\ OnHealth(events[i]) /\ IsRegister(events[i])
        /\ OnHealth(events[j]) /\ IsRegister(events[j])
        /\ events[i].CheckServiceNode.Node.Node = events[j].CheckServiceNode.Node.Node
        /\ events[i].CheckServiceNode.Service.ID # events[j].CheckServiceNode.Service.ID
        /\ events[i].CheckServiceNode.Node.Node \in DOMAIN Classify(changes).nodeChanges
        /\ \E c \in 1..Len(events[i].CheckServiceNode.Checks) :
              events[i].CheckServiceNode.Checks[c].ServiceID
                  = events[i].CheckServiceNode.Service.ID

\* the Deregister event of the before image sn of an instance
DeregisterOf(sn) ==
    [Topic |-> Topic_ServiceHealth,
     Key |-> sn.ServiceName,
     Index |-> index,
     Op |-> CatalogOp_Deregister,
     CheckServiceNode |->
         [Node |-> [Node |-> sn.Node, Address |-> ""],
          Service |-> [ID |-> sn.ServiceID, Service |-> sn.ServiceName,
                       Kind |-> sn.ServiceKind, Native |-> sn.Native,
                       Dest |-> sn.Dest],
          Checks |-> <<>>]]

\* the events of the list about the instance <<node, id>>
EventsOf(inst) == {i \in EventIdx : InstanceOf(events[i].CheckServiceNode) = inst}

\* C5: for every deleted service row the list holds exactly one Deregister
\* on ServiceHealth for the instance, keyed by the deleted row's service
\* name, carrying the node name and the deleted row only, and no Register
\* for the instance.
C5_DeleteDeregisters ==
    \A c \in ServiceDeletes :
        LET sn == changes[c].Before
            mine == EventsOf(<<sn.Node, sn.ServiceID>>)
        IN /\ Cardinality({i \in mine : OnHealth(events[i]) /\ IsDeregister(events[i])}) = 1
           /\ \E i \in mine : events[i] = DeregisterOf(sn)
           /\ \A i \in mine : ~IsRegister(events[i])

\* an instance is deleted in a transaction that also writes its node, which
\* stays registered
C5_Witness ==
    \E c \in ServiceDeletes :
        /\ changes[c].Before.Node \in DOMAIN Classify(changes).nodeChanges
        /\ ~IsNilRow(nodes[changes[c].Before.Node])
        /\ events # <<>>

\* the number of events of the list that satisfy P
CountEvents(P(_)) == Cardinality({i \in EventIdx : P(events[i])})

\* the service updates of the last transaction that change the service name
Renames == {c \in ServiceUpdates :
              changes[c].Before.ServiceName # changes[c].After.ServiceName}

\* C6: for every renamed instance the list holds the Deregister of the before
\* image on ServiceHealth under the old name, then a Register of the
\* instance on ServiceHealth under the new name; when the rename of a
\* typical instance is the whole changeset, these two events are the list.
C6_RenameOrder ==
    \A c \in Renames :
        LET before == changes[c].Before
            after == changes[c].After
        IN /\ \E i, j \in EventIdx :
                /\ i < j
                /\ events[i] = DeregisterOf(before)
                /\ OnHealth(events[j]) /\ IsRegister(events[j])
                /\ events[j].Key = after.ServiceName
                /\ InstanceOf(events[j].CheckServiceNode) = <<after.Node, after.ServiceID>>
           /\ (Len(changes) = 1 /\ ~ConnectEnabled(ToNodeService(before))
                 /\ ~ConnectEnabled(ToNodeService(after))) => Len(events) = 2

\* the last transaction only retargets a proxy: its changeset is one update
\* of a connect-proxy row that keeps its name and changes its destination
OnlyRetarget ==
    /\ Len(changes) = 1
    /\ ServiceUpdates = {1}
    /\ changes[1].Before.ServiceKind = ServiceKindConnectProxy
    /\ changes[1].After.ServiceKind = ServiceKindConnectProxy
    /\ changes[1].Before.ServiceName = changes[1].After.ServiceName
    /\ changes[1].Before.Dest # changes[1].After.Dest

\* C7: a changeset that only retargets a proxy from X to Y yields exactly
\* one Deregister on ServiceHealthConnect keyed X, one Register on
\* ServiceHealthConnect keyed Y, one Register on ServiceHealth keyed by the
\* proxy's service name, and no Deregister on ServiceHealth.
C7_ProxyRetarget ==
    OnlyRetarget =>
        LET x == changes[1].Before.Dest
            y == changes[1].After.Dest
            name == changes[1].After.ServiceName
            deregX(e) == OnConnect(e) /\ IsDeregister(e) /\ e.Key = x
            regY(e) == OnConnect(e) /\ IsRegister(e) /\ e.Key = y
            regName(e) == OnHealth(e) /\ IsRegister(e) /\ e.Key = name
            deregHealth(e) == OnHealth(e) /\ IsDeregister(e)
        IN /\ CountEvents(deregX) = 1
           /\ CountEvents(regY) = 1
           /\ CountEvents(regName) = 1
           /\ CountEvents(deregHealth) = 0

\* a proxy registered under its own name is retargeted, with a check
C7_Witness ==
    /\ OnlyRetarget
    /\ changes[1].After.ServiceName # changes[1].After.Dest
    /\ Len(events) = 3
    /\ events[2].CheckServiceNode.Checks # <<>>

\* the last transaction only changes a node-scoped check: its changeset is
\* one creation, update or deletion of a check that is node-scoped
OnlyNodeCheck ==
    /\ Len(changes) = 1
    /\ changes[1].Table = "checks"
    /\ ~IsNilRow(changes[1].Before) => changes[1].Before.ServiceID = ""
    /\ ~IsNilRow(changes[1].After) => changes[1].After.ServiceID = ""

\* the instances registered on node n in the committed view
InstancesOn(n) == {k \in ServiceRows(services) : k[1] = n}

\* C8: a changeset that only changes a node-scoped check of a node yields
\* one Register on ServiceHealth per instance of that node, keyed by its
\* service name at the transaction's index, and besides these only their
\* connect copies: nothing for a node without instances, nothing about
\* another node.
C8_NodeCheckFanOut ==
    OnlyNodeCheck =>
        LET n == RowOf(changes[1]).Node
            health == OnTopic(Topic_ServiceHealth)
            connect == OnTopic(Topic_ServiceHealthConnect)
            eligible == {k \in InstancesOn(n) : ConnectEnabled(ToNodeService(services[k]))}
        IN /\ Len(health) = Cardinality(InstancesOn(n))
           /\ \A k \in InstancesOn(n) :
                 \E i \in 1..Len(health) :
                   /\ IsRegister(health[i])
                   /\ InstanceOf(health[i].CheckServiceNode) = k
                   /\ health[i].Key = services[k].ServiceName
                   /\ health[i].Index = index
           /\ Len(connect) = Cardinality(eligible)
           /\ \A i \in 1..Len(connect) :
                 \E j \in 1..Len(health) :
                   /\ ConnectEnabled(health[j].CheckServiceNode.Service)
                   /\ connect[i] = [health[j] EXCEPT
                                      !.Topic = Topic_ServiceHealthConnect,
                                      !.Key = ConnectKey(health[j].CheckServiceNode.Service)]
           /\ InstancesOn(n) = {} => events = <<>>
           /\ \A i \in EventIdx : events[i].CheckServiceNode.Node.Node = n

\* the status of a node-scoped check of a node with two instances, one of
\* them connect-eligible, is updated
C8_Witness ==
    /\ OnlyNodeCheck
    /\ Updated(changes[1])
    /\ changes[1].Before.Status # changes[1].After.Status
    /\ Cardinality(InstancesOn(changes[1].After.Node)) = 2
    /\ Len(events) = 3

\* the nodes deleted by the last transaction
DeletedNodes ==
    {changes[c].Before.Node :
        c \in {d \in ChangeIdx : changes[d].Table = "nodes" /\ Deleted(changes[d])}}

\* C9: when a node is deleted with its instances and checks, in any order
\* of the changes, the projection succeeds, the list holds exactly one
\* Deregister on ServiceHealth per deleted instance, keyed by its service
\* name, and no Register about the node.
C9_NodeDeleteCascade ==
    \A n \in DeletedNodes :
        LET gone == {c \in ServiceDeletes : changes[c].Before.Node = n}
            aboutNode == {i \in EventIdx : events[i].CheckServiceNode.Node.Node = n}
        IN /\ err = ErrNone
           /\ \A c \in gone :
                 Cardinality({i \in aboutNode :
                                /\ OnHealth(events[i]) /\ IsDeregister(events[i])
                                /\ events[i].Key = changes[c].Before.ServiceName
                                /\ events[i].CheckServiceNode.Service.ID
                                     = changes[c].Before.ServiceID}) = 1
           /\ Cardinality({i \in aboutNode : OnHealth(events[i])}) = Cardinality(gone)
           /\ \A i \in aboutNode : ~IsRegister(events[i])

\* a node is deleted with two instances, a node-scoped check and a check of
\* an instance, and the deletion of the node-scoped check comes before the
\* deletion of the node in the changeset
C9_Witness ==
    \E n \in DeletedNodes :
        /\ Cardinality({c \in ServiceDeletes : changes[c].Before.Node = n}) = 2
        /\ \E c \in ChangeIdx :
              changes[c].Table = "checks" /\ changes[c].Before.ServiceID # ""
        /\ \E c, d \in ChangeIdx :
              /\ c < d
              /\ changes[c].Table = "checks" /\ changes[c].Before.ServiceID = ""
              /\ changes[d].Table = "nodes"
        /\ Len(events) >= 2

\* C10: every Register on ServiceHealthConnect has a Register on
\* ServiceHealth in the same list with the same index and payload, keyed by
\* the same key or by the payload's own service name.
C10_ConnectHasHealth ==
    \A i \in EventIdx :
        (OnConnect(events[i]) /\ IsRegister(events[i])) =>
        \E j \in EventIdx :
            /\ OnHealth(events[j]) /\ IsRegister(events[j])
            /\ events[j].Index = events[i].Index
            /\ events[j].CheckServiceNode = events[i].CheckServiceNode
            /\ events[j].Key \in {events[i].Key,
                                  events[i].CheckServiceNode.Service.Service}

\* a proxy is registered on the connect topic under its destination while
\* a Deregister from its retarget is on the connect topic too
C10_Witness ==
    /\ \E i \in EventIdx :
          /\ OnConnect(events[i]) /\ IsRegister(events[i])
          /\ events[i].Key # events[i].CheckServiceNode.Service.Service
    /\ \E i \in EventIdx : OnConnect(events[i]) /\ IsDeregister(events[i])

\* C11 as stated: the connect overlay of the returned list is empty.
C11_OverlayEmpty ==
    (Committed /\ err = ErrNone) => serviceHealthToConnectEvents(events) = <<>>

\* the last n elements of a sequence
Suffix(es, n) == SubSeq(es, Len(es) - n + 1, Len(es))

\* C11 as amended: the connect overlay of the returned list is again what
\* the final pass appended, the tail of the list, and the overlay of that
\* tail is empty.
C11_OverlayIdempotent ==
    (Committed /\ err = ErrNone) =>
        LET again == serviceHealthToConnectEvents(events)
        IN /\ Len(again) <= Len(events)
           /\ again = Suffix(events, Len(again))
           /\ serviceHealthToConnectEvents(again) = <<>>

\* a list with a Deregister put on the connect topic by a retarget and the
\* copy of a Register appended by the final pass
C11_Witness ==
    /\ Committed /\ err = ErrNone
    /\ serviceHealthToConnectEvents(events) # <<>>
    /\ \E i, j \in EventIdx :
          /\ i < j
          /\ OnConnect(events[i]) /\ IsDeregister(events[i])
          /\ OnHealth(events[j])

\* the two maps of the last changeset
Marked == Classify(changes)

\* the dirty nodes the node pass enumerates: those not recorded as deleted
Enumerated ==
    {n \in DOMAIN Marked.nodeChanges :
        ~(Marked.nodeChanges[n] # NilChange /\ Deleted(Marked.nodeChanges[n]))}

\* the result of the node pass for the dirty node n
NodeStep(n) == serviceHealthEventsForNode(CurTx, n)

\* the result of the instance pass for the dirty instance t
InstanceStep(t) ==
    servicePassStep(CurTx, Marked.nodeChanges, t, Marked.serviceChanges[t])

\* C14: when a store read or a conversion fails in the node pass or in the
\* instance pass, the projection returns the error and no event; it returns
\* events only when every step of both passes succeeded.
C14_AtomicFailure ==
    Committed =>
        /\ err # ErrNone <=>
              \/ \E n \in Enumerated : NodeStep(n).err # ErrNone
              \/ \E t \in DOMAIN Marked.serviceChanges : InstanceStep(t).err # ErrNone
        /\ err # ErrNone => events = <<>>

\* the node pass succeeded with events and the instance pass failed
C14_Witness ==
    /\ Committed
    /\ err # ErrNone
    /\ events = <<>>
    /\ \A n \in Enumerated : NodeStep(n).err = ErrNone
    /\ \E n \in Enumerated : NodeStep(n).events # <<>>
    /\ \E t \in DOMAIN Marked.serviceChanges : InstanceStep(t).err # ErrNone

\* an instance step fails at its Register after its Deregister was built
C14_WitnessInStep ==
    /\ Committed
    /\ err = ErrMissingNode
    /\ \E c \in Renames :
          InstanceStep(<<changes[c].After.Node, changes[c].After.ServiceID>>).err
              = ErrMissingNode

\* the table and key of the row a change is about
KeyOf(ch) ==
    <<ch.Table, RowOf(ch).Node,
      IF ch.Table = "services" THEN RowOf(ch).ServiceID
      ELSE IF ch.Table = "checks" THEN RowOf(ch).CheckID ELSE "">>

\* the row of the view a change is about
ViewRow(ch) ==
    IF ch.Table = "nodes" THEN nodes[RowOf(ch).Node]
    ELSE IF ch.Table = "services" THEN services[<<RowOf(ch).Node, RowOf(ch).ServiceID>>]
    ELSE checks[<<RowOf(ch).Node, RowOf(ch).CheckID>>]

\* The view and the changeset are those of a transaction of a store that
\* keeps the catalog consistent and cascades the deletion of a node: the
\* changeset has one change per row, the view holds the After image of every
\* change, and the tables are consistent before and after the transaction.
StoreProduced ==
    /\ \A i, j \in ChangeIdx : KeyOf(changes[i]) = KeyOf(changes[j]) => i = j
    /\ \A i \in ChangeIdx : ViewRow(changes[i]) = changes[i].After
    /\ Consistent(nodes, services, checks)
    /\ Consistent(PreNodes, PreServices, PreChecks)

\* the dirty instances the instance pass registers by itself: not recorded
\* as deleted, on a node that is not dirty
PerInstance ==
    {t \in DOMAIN Marked.serviceChanges :
        /\ ~(Marked.serviceChanges[t] # NilChange /\ Deleted(Marked.serviceChanges[t]))
        /\ t[1] \notin DOMAIN Marked.nodeChanges}

\* the errors of the steps of the two passes that fail
StepErrors ==
    ({NodeStep(n).err : n \in Enumerated}
        \cup {InstanceStep(t).err : t \in DOMAIN Marked.serviceChanges}) \ {ErrNone}

C18_WitnessService ==
    /\ Committed
    /\ err = ErrMissingService
    /\ \E t \in PerInstance :
          t \notin fault /\ ~IsNilRow(nodes[t[1]]) /\ IsNilRow(services[t])

\* a node and its node-scoped check are deleted by one transaction of a
\* cascading store, the check first
C18_WitnessStore ==
    /\ Committed
    /\ StoreProduced
    /\ Len(changes) = 2
    /\ changes[1].Table = "checks" /\ Deleted(changes[1])
    /\ changes[2].Table = "nodes" /\ Deleted(changes[2])
    /\ Enumerated = {}

\* a dirty node of a transaction of a cascading store is enumerated
C18_WitnessEnumerated ==
    /\ Committed
    /\ StoreProduced
    /\ \E n \in Enumerated : NodeStep(n).events # <<>>

\* every transaction of the store gives a view and a changeset that are
\* StoreProduced, and every dirty node it enumerates has its node row
StoreIsCascading ==
    Committed => (StoreProduced /\ \A n \in Enumerated : ~IsNilRow(nodes[n]))

\* the changes of the last changeset to the node row of n, and to the
\* service row of t
NodeMutations(n) ==
    {i \in ChangeIdx : changes[i].Table = "nodes" /\ RowOf(changes[i]).Node = n}
ServiceMutations(t) ==
    {i \in ChangeIdx : /\ changes[i].Table = "services"
                       /\ RowOf(changes[i]).Node = t[1]
                       /\ RowOf(changes[i]).ServiceID = t[2]}

\* the first of a non-empty set of places of the changeset
First(cs) == CHOOSE i \in cs : \A j \in cs : i <= j

\* C19: a node (an instance) with a change of its row in the changeset is
\* recorded with the first such change, wherever the mark-only entries that
\* check changes make for it come in the changeset; a node (an instance)
\* without one is recorded, if at all, as mark-only.
C19_NonDowngrade ==
    Committed =>
        /\ \A n \in NodeNames :
              IF NodeMutations(n) = {}
              THEN n \in DOMAIN Marked.nodeChanges => Marked.nodeChanges[n] = NilChange
              ELSE /\ n \in DOMAIN Marked.nodeChanges
                   /\ Marked.nodeChanges[n] = changes[First(NodeMutations(n))]
        /\ \A t \in NodeNames \X ServiceIDs :
              IF ServiceMutations(t) = {}
              THEN t \in DOMAIN Marked.serviceChanges
                      => Marked.serviceChanges[t] = NilChange
              ELSE /\ t \in DOMAIN Marked.serviceChanges
                   /\ Marked.serviceChanges[t] = changes[First(ServiceMutations(t))]

\* a check change marks an instance after the change of its service row
C19_Witness ==
    /\ Committed
    /\ Len(changes) = 2
    /\ changes[1].Table = "services"
    /\ changes[2].Table = "checks"
    /\ RowOf(changes[2]).ServiceID = RowOf(changes[1]).ServiceID
    /\ RowOf(changes[2]).Node = RowOf(changes[1]).Node
    /\ Marked.serviceChanges[<<RowOf(changes[1]).Node, RowOf(changes[1]).ServiceID>>]
          = changes[1]

\* a check change marks a node before the change of its node row
C19_WitnessMarkFirst ==
    /\ Committed
    /\ Len(changes) = 2
    /\ changes[1].Table = "checks" /\ RowOf(changes[1]).ServiceID = ""
    /\ changes[2].Table = "nodes"
    /\ RowOf(changes[2]).Node = RowOf(changes[1]).Node
    /\ Marked.nodeChanges[RowOf(changes[2]).Node] = changes[2]

\* two different changes of one service row
C19_WitnessTwoMutations ==
    /\ Committed
    /\ Len(changes) = 2
    /\ changes[1] # changes[2]
    /\ ServiceMutations(<<"n1", "s1">>) = {1, 2}
    /\ Marked.serviceChanges[<<"n1", "s1">>] = changes[1]

\* the Registers on ServiceHealth of the instance t in the list
HealthRegisters(t) ==
    {i \in EventIdx : /\ OnHealth(events[i]) /\ IsRegister(events[i])
                      /\ InstanceOf(events[i].CheckServiceNode) = t}

\* C20: the event list holds at most one Register on ServiceHealth for each
\* pair of a node and an instance id.
C20_NoDuplicates ==
    Committed => \A t \in NodeNames \X ServiceIDs : Cardinality(HealthRegisters(t)) <= 1

\* one transaction marks a node and updates the row of an instance of it,
\* and the instance is registered once
C20_Witness ==
    /\ Committed
    /\ \E t \in DOMAIN Marked.serviceChanges :
          /\ t[1] \in DOMAIN Marked.nodeChanges
          /\ Marked.serviceChanges[t] # NilChange
          /\ Updated(Marked.serviceChanges[t])
          /\ Cardinality(HealthRegisters(t)) = 1

\* the instance pass for the dirty instance t when no node is dirty
UnskippedStep(t) == servicePassStep(CurTx, <<>>, t, Marked.serviceChanges[t])

\* C16 as stated: a dirty instance whose node is dirty and not deleted emits
\* nothing in the instance pass, and a dirty instance whose node is not dirty
\* or is deleted is processed as if no node were dirty.
C16_DirtyNodeSkipsAll ==
    Committed =>
        \A t \in DOMAIN Marked.serviceChanges :
            IF t[1] \in Enumerated
            THEN InstanceStep(t) = NoEvents
            ELSE InstanceStep(t) = UnskippedStep(t)

\* the Deregisters of the dirty instance t: of its before image when it was
\* deleted or renamed, and on ServiceHealthConnect under the old destination
\* when it was a proxy whose destination changed
DeregistersOf(t) ==
    LET ch == Marked.serviceChanges[t]
        onConnect(e) == [e EXCEPT !.Topic = Topic_ServiceHealthConnect,
                                  !.Key = ch.Before.Dest]
    IN IF ch = NilChange \/ Created(ch) THEN <<>>
       ELSE IF Deleted(ch) THEN <<DeregisterOf(ch.Before)>>
       ELSE (IF ch.Before.ServiceName # ch.After.ServiceName
             THEN <<DeregisterOf(ch.Before)>> ELSE <<>>)
            \o (IF ch.Before.ServiceKind = ServiceKindConnectProxy
                   /\ ch.Before.Dest # ch.After.Dest
                THEN <<onConnect(DeregisterOf(ch.Before))>> ELSE <<>>)

\* C16: a dirty instance whose node is dirty, deleted or not, emits in the
\* instance pass its Deregisters (deletion, rename, proxy retarget) and no
\* Register; a dirty instance whose node is not dirty emits the same
\* Deregisters and then, unless it was deleted, its Register.
C16_RegisterSkipped ==
    Committed =>
        \A t \in DOMAIN Marked.serviceChanges :
            LET step == InstanceStep(t)
                ch == Marked.serviceChanges[t]
            IN IF t[1] \in DOMAIN Marked.nodeChanges \/ (ch # NilChange /\ Deleted(ch))
               THEN /\ t \notin fault => step.err = ErrNone
                    /\ step.err = ErrNone => step.events = DeregistersOf(t)
               ELSE step.err = ErrNone =>
                      /\ Len(step.events) = Len(DeregistersOf(t)) + 1
                      /\ SubSeq(step.events, 1, Len(DeregistersOf(t))) = DeregistersOf(t)
                      /\ OnHealth(step.events[Len(step.events)])
                      /\ IsRegister(step.events[Len(step.events)])
                      /\ InstanceOf(step.events[Len(step.events)].CheckServiceNode) = t

\* a renamed instance of a dirty node that is not deleted emits its
\* Deregister in the instance pass
C16_Witness ==
    /\ Committed
    /\ err = ErrNone
    /\ \E t \in DOMAIN Marked.serviceChanges :
          /\ t[1] \in Enumerated
          /\ InstanceStep(t).events # <<>>
          /\ InstanceStep(t).events = DeregistersOf(t)

\* an updated instance of a node recorded as deleted, with both rows in the
\* view, emits nothing in the instance pass
C16_WitnessDeletedNode ==
    /\ Committed
    /\ err = ErrNone
    /\ \E t \in DOMAIN Marked.serviceChanges :
          /\ t[1] \in DOMAIN Marked.nodeChanges \ Enumerated
          /\ Marked.serviceChanges[t] # NilChange /\ Updated(Marked.serviceChanges[t])
          /\ ~IsNilRow(nodes[t[1]]) /\ ~IsNilRow(services[t])
          /\ InstanceStep(t) = NoEvents

\* the check row c applies to the instance t: it is a row of t's node that is
\* node-scoped or scoped to t
AppliesTo(c, t) == ~IsNilRow(c) /\ c.Node = t[1] /\ c.ServiceID \in {"", t[2]}

\* the last changeset creates, updates or deletes the node row of the
\* instance t, its service row, or a check that applied to it before or
\* applies to it after
Touched(t) ==
    \E i \in ChangeIdx :
        \/ changes[i].Table = "nodes" /\ RowOf(changes[i]).Node = t[1]
        \/ /\ changes[i].Table = "services"
           /\ <<RowOf(changes[i]).Node, RowOf(changes[i]).ServiceID>> = t
        \/ /\ changes[i].Table = "checks"
           /\ (AppliesTo(changes[i].Before, t) \/ AppliesTo(changes[i].After, t))

\* e is the Register on ServiceHealth of the instance t, keyed by its service
\* name, with its join in the committed view
IsCurrentRegister(e, t) ==
    /\ OnHealth(e) /\ IsRegister(e)
    /\ e.Key = services[t].ServiceName
    /\ e.Index = index
    /\ e.CheckServiceNode.Node = [Node |-> nodes[t[1]].Node,
                                  Address |-> nodes[t[1]].Address]
    /\ e.CheckServiceNode.Service = ToNodeService(services[t])
    /\ SeqToSet(e.CheckServiceNode.Checks) = ChecksFor(e.CheckServiceNode)
    /\ Len(e.CheckServiceNode.Checks) = Cardinality(ChecksFor(e.CheckServiceNode))

\* C21: for every instance that exists after a transaction of the store and
\* whose node row, service row or one of whose checks (before or after) the
\* changeset creates, updates or deletes, the list holds a Register on
\* ServiceHealth keyed by its current service name with its join in the
\* committed view.
C21_Completeness ==
    (Committed /\ err = ErrNone) =>
        \A t \in ServiceRows(services) :
            Touched(t) => \E i \in EventIdx : IsCurrentRegister(events[i], t)

\* a check is re-targeted from one instance to another and both are
\* registered again
C21_Witness ==
    /\ Committed /\ err = ErrNone
    /\ \E i \in ChangeIdx :
          /\ changes[i].Table = "checks" /\ Updated(changes[i])
          /\ changes[i].Before.ServiceID # ""
          /\ changes[i].After.ServiceID # ""
          /\ changes[i].Before.ServiceID # changes[i].After.ServiceID
          /\ \A sid \in {changes[i].Before.ServiceID, changes[i].After.ServiceID} :
                /\ <<changes[i].After.Node, sid>> \in ServiceRows(services)
                /\ \E j \in EventIdx :
                      IsCurrentRegister(events[j], <<changes[i].After.Node, sid>>)

\* a check changes between node scope and service scope on a node with an
\* instance
C21_WitnessScope ==
    /\ Committed /\ err = ErrNone
    /\ \E i \in ChangeIdx :
          /\ changes[i].Table = "checks" /\ Updated(changes[i])
          /\ (changes[i].Before.ServiceID = "") # (changes[i].After.ServiceID = "")
          /\ \E t \in ServiceRows(services) :
                t[1] = changes[i].After.Node /\ Touched(t)

\* the service row of an instance is updated
C21_WitnessService ==
    /\ Committed /\ err = ErrNone
    /\ \E i \in ServiceUpdates :
          <<changes[i].After.Node, changes[i].After.ServiceID>> \in ServiceRows(services)

\* C15 as stated: every event on ServiceHealthConnect comes after every event
\* on ServiceHealth.
C15_ConnectAfterHealth ==
    (Committed /\ err = ErrNone) =>
        \A i, j \in EventIdx : (OnConnect(events[i]) /\ OnHealth(events[j])) => j < i

\* the service updates of the last transaction that change the destination
\* of a connect proxy
Retargets == {c \in ServiceUpdates :
                /\ changes[c].Before.ServiceKind = ServiceKindConnectProxy
                /\ changes[c].Before.Dest # changes[c].After.Dest}

\* e is the converted Deregister of a proxy retarget of the last transaction
IsRetargetDeregister(e) ==
    \E c \in Retargets :
        e = [DeregisterOf(changes[c].Before) EXCEPT
                 !.Topic = Topic_ServiceHealthConnect,
                 !.Key = changes[c].Before.Dest]

\* the first n events of the list are the events of the two passes and the
\* rest is what the final pass appended: no event after the n-th is on
\* ServiceHealth, and an event on ServiceHealthConnect among the first n is
\* the converted Deregister of a proxy retarget
SplitsAt(n) ==
    /\ SubSeq(events, n + 1, Len(events))
          = serviceHealthToConnectEvents(SubSeq(events, 1, n))
    /\ \A i \in 1..n : OnConnect(events[i]) => IsRetargetDeregister(events[i])

\* C15: the events the final pass appends, one on ServiceHealthConnect for
\* each event before them that it converts, follow every event on
\* ServiceHealth; an event on ServiceHealthConnect that precedes an event on
\* ServiceHealth is the converted Deregister of a proxy retarget.
C15_OverlayLast ==
    (Committed /\ err = ErrNone) => \E n \in 0..Len(events) : SplitsAt(n)

\* a retargeted proxy is deregistered on ServiceHealthConnect before its
\* Register on ServiceHealth, and the final pass appends its Register on
\* ServiceHealthConnect
C15_Witness ==
    /\ Committed /\ err = ErrNone
    /\ \E i, j \in EventIdx : i < j /\ OnConnect(events[i]) /\ OnHealth(events[j])
    /\ \E n \in 1..(Len(events) - 1) : SplitsAt(n) /\ IsRegister(events[Len(events)])

\* the joins the store lookup of the snapshot returns
Lookup == checkServiceNodesTxn(CurTx, snap.Key, snap.Topic = Topic_ServiceHealthConnect)

\* the batches the sink received
Sink == snap.Buf.Items

\* the sink holds, in the lookup's order, one batch of one Register event per
\* instance of the lookup, on the subscription's topic, at the read
\* transaction's index, with the checks of the instance
SinkComplete ==
    /\ Len(Sink) = Len(Lookup)
    /\ \A i \in 1..Len(Sink) :
          /\ Len(Sink[i]) = 1
          /\ IsRegister(Sink[i][1])
          /\ Sink[i][1].Topic = snap.Topic
          /\ Sink[i][1].Index = index
          /\ Sink[i][1].CheckServiceNode.Node.Node = Lookup[i].Node.Node
          /\ Sink[i][1].CheckServiceNode.Service = Lookup[i].Service
          /\ SeqToSet(Sink[i][1].CheckServiceNode.Checks)
                = ChecksFor(Sink[i][1].CheckServiceNode)
          /\ Len(Sink[i][1].CheckServiceNode.Checks)
                = Cardinality(ChecksFor(Sink[i][1].CheckServiceNode))

\* C12: a snapshot hands the sink one Register event per instance of the
\* store lookup, in the lookup's order, one event per append, each with the
\* subscription's topic, the read transaction's index and the instance's
\* merged checks, and returns the read transaction's index.
C12_SnapshotContract ==
    snap.Taken => (SinkComplete /\ snap.Idx = index)

\* C12 again when every instance of the lookup can be converted
C12_SnapshotContractNoFault ==
    (snap.Taken /\ \A i \in 1..Len(Lookup) : FromStructsErr(Lookup[i]) = ErrNone)
        => (SinkComplete /\ snap.Idx = index)

\* a snapshot of two instances, one of them with a check of its own and a
\* node check, at an index above zero
C12_Witness ==
    /\ snap.Taken
    /\ index > 0
    /\ Len(Sink) = 2
    /\ \E i \in 1..2 : Len(Sink[i][1].CheckServiceNode.Checks) = 2

\* C13: every event of a snapshot is keyed by the subscription key, on both
\* topics; a proxy in a ServiceHealthConnect snapshot is keyed by the
\* destination asked for.
C13_SnapshotKey ==
    snap.Taken =>
        \A i \in 1..Len(Sink) : \A j \in 1..Len(Sink[i]) : Sink[i][j].Key = snap.Key

\* the key of a snapshot event is the instance's own service name
C13_SnapshotKeyIsName ==
    snap.Taken =>
        \A i \in 1..Len(Sink) : \A j \in 1..Len(Sink[i]) :
            Sink[i][j].Key = Sink[i][j].CheckServiceNode.Service.Service

\* C17: when the conversion of an instance of the lookup fails, the snapshot
\* call returns that error, and a call that returns no error has handed the
\* sink every instance of the lookup.
C17_EncodingErrorSurfaced ==
    snap.Taken =>
        /\ (\E i \in 1..Len(Lookup) : FromStructsErr(Lookup[i]) # ErrNone)
              => snap.Err = ErrEncoding
        /\ snap.Err = ErrNone => Len(Sink) = Len(Lookup)

\* what the snapshot producers do: they return no error, and the sink holds
\* the instances of the lookup before the first that cannot be converted
C17_ErrorDropped ==
    snap.Taken =>
        /\ snap.Err = ErrNone
        /\ Len(Sink) <= Len(Lookup)
        /\ \A i \in 1..Len(Sink) : FromStructsErr(Lookup[i]) = ErrNone
        /\ Len(Sink) < Len(Lookup) => FromStructsErr(Lookup[Len(Sink) + 1]) # ErrNone

\* the projection of a changeset of a consistent catalog never fails
NoError == err = ErrNone

TypeOK == index \in 0..MaxIndex
====
